---- MODULE Spec2Model ----
(***************************************************************************)
(* ArbiLink MessageHub (message-hub/src/lib.rs): the message lifecycle,    *)
(* the relayer stake ledger and the protocol fee balance, as a state       *)
(* machine.  Every public function of the contract is an operator that     *)
(* maps the storage at entry to the storage at return together with the    *)
(* returned error; the entrypoint commits the storage and the value        *)
(* transfer of a call only when the function returns Ok.                   *)
(***************************************************************************)
EXTENDS Integers, Sequences, FiniteSets, TLC

\* ---- bounds of the model ------------------------------------------------
NumAddrs == 2          \* callers are the addresses 1..NumAddrs
MaxMessages == 2       \* send_message is explored up to this nonce
MaxTraced == 1         \* the same, where reverted calls are steps too (Spec)
MaxTime == 3           \* the block timestamp is explored up to this value
MaxStake == 10         \* register_relayer is explored up to this stake of a relayer
MaxChainCount == 1     \* add_chain is explored up to this chain_count

\* ---- values of the source ------------------------------------------------
\* U256 arithmetic of the source is modulo 2^256; the model keeps the wrap
\* around but at a width TLC's integers can hold.
U256 == 2^30

ZERO == 0                       \* Address::ZERO
STATUS_PENDING == 0
STATUS_RELAYED == 1
STATUS_CONFIRMED == 2
STATUS_FAILED == 3
RELAYER_REWARD_BPS == 8000
CHALLENGER_REWARD_BPS == 1000
BPS_DENOMINATOR == 10000
MIN_PROOF_LEN == 65

Add(a, b) == (a + b) % U256
Sub(a, b) == ((a + U256) - b) % U256
Mul(a, b) == (a * b) % U256

\* ---- inputs --------------------------------------------------------------
Address == 1..NumAddrs          \* possible msg_sender values (never zero)
AddrKeys == 0..NumAddrs         \* keys of mapping(address => ...)
IdKeys == 0..MaxMessages        \* message ids a caller may name (0 is never assigned)
ChainIds == {1}                 \* destination chain ids a caller may name
BaseFees == {3}                 \* base_fee arguments of add_chain
FeeValues == {2, 3}             \* msg_value of send_message
StakeValues == {5, 10}          \* msg_value of register_relayer
MinStakes == {10}               \* min_stake arguments of initialize
Periods == {1}                  \* challenge_period arguments of initialize
WithdrawAmounts == {3}          \* amount arguments of withdraw_fees
Senders == {2}                  \* callers of send_message
Stakers == {1}                  \* callers of register_relayer
Receivers == {0, 1}             \* receiver_address arguments of add_chain
Targets == {1}                  \* target arguments of send_message
Datas == {<<1>>}                \* data arguments of send_message
\* A proof is a byte string; the verifier reads its length and first byte.
Proofs == { [len |-> 64, first |-> 1], [len |-> 65, first |-> 0],
            [len |-> 65, first |-> 1] }

\* ---- storage -------------------------------------------------------------
EmptyMessage ==
  [sender |-> ZERO, destination_chain |-> 0, target |-> ZERO, data |-> <<>>,
   timestamp |-> 0, fee_paid |-> 0, status |-> STATUS_PENDING, relayer |-> ZERO]
EmptyChainConfig == [enabled |-> FALSE, receiver_address |-> ZERO, base_fee |-> 0]
EmptyRelayerInfo ==
  [active |-> FALSE, total_relayed |-> 0, successful |-> 0, slashed |-> 0, stake |-> 0]
EmptyChallenge == [exists |-> FALSE, challenger |-> ZERO, deadline |-> 0, resolved |-> FALSE]

EmptyHub ==
  [owner |-> ZERO,
   message_nonce |-> 0,
   messages |-> [i \in IdKeys |-> EmptyMessage],
   supported_chains |-> [c \in ChainIds |-> EmptyChainConfig],
   chain_count |-> 0,
   relayers |-> [a \in AddrKeys |-> EmptyRelayerInfo],
   min_stake |-> 0,
   protocol_fee_balance |-> 0,
   challenge_period |-> 0,
   challenges |-> [i \in IdKeys |-> EmptyChallenge]]

VARIABLES
  hub,        \* the storage of struct MessageHub
  balance,    \* the value (ETH) the contract holds: all value received minus all value sent
  now,        \* block_timestamp
  result,     \* the last call: function, message id argument, error, returned value
  sends,      \* number of send_message calls that returned Ok
  resolutions \* per message id: challenge_message/finalize_message calls that returned Ok

vars == <<hub, balance, now, result, sends, resolutions>>

\* ---- the outcome of a function body --------------------------------------
\* hub: the storage as the body left it; pay: the value it transferred out.
Ok(s, pay, ret) == [err |-> "Ok", args |-> <<>>, hub |-> s, pay |-> pay, ret |-> ret]
Err(kind, args, s) == [err |-> kind, args |-> args, hub |-> s, pay |-> 0, ret |-> 0]

\* transfer_eth: fails when the contract holds less than the amount or the
\* recipient does not accept the value.
transfer_eth(bal, amount, accepts) == accepts /\ amount <= bal

verify_execution_proof(proof) == proof.len >= MIN_PROOF_LEN /\ proof.first # 0
verify_fraud_proof(proof) == proof.len >= MIN_PROOF_LEN /\ proof.first # 0

only_owner_or_unset(s, caller) == caller = s.owner \/ s.owner = ZERO
only_owner(s, caller) == caller = s.owner
\* ---- the public functions ------------------------------------------------
initialize_unguarded(s, caller, min_stake, challenge_period) ==
  Ok([s EXCEPT !.owner = caller,
               !.min_stake = min_stake,
               !.challenge_period = challenge_period], 0, 0)

initialize(s, caller, min_stake, challenge_period) ==
  IF s.owner # ZERO THEN Err("AlreadyInitialized", <<>>, s)
  ELSE Ok([s EXCEPT !.owner = caller,
                    !.min_stake = min_stake,
                    !.challenge_period = challenge_period], 0, 0)

send_message_same_nonce(s, sender, provided, destination_chain, target, data, ts) ==
  LET chain == s.supported_chains[destination_chain]
      required_fee == chain.base_fee
      id == Add(s.message_nonce, 1)
  IN IF ~chain.enabled THEN Err("ChainNotSupported", <<destination_chain>>, s)
     ELSE IF provided < required_fee
       THEN Err("InsufficientFee", <<required_fee, provided>>, s)
     ELSE Ok([s EXCEPT
               !.messages[id] =
                  [sender |-> sender, destination_chain |-> destination_chain,
                   target |-> target, data |-> data, timestamp |-> ts,
                   fee_paid |-> provided, status |-> STATUS_PENDING,
                   relayer |-> ZERO],
               !.protocol_fee_balance = Add(@, provided)], 0, id)

send_message(s, sender, provided, destination_chain, target, data, ts) ==
  LET chain == s.supported_chains[destination_chain]
      required_fee == chain.base_fee
      id == Add(s.message_nonce, 1)
  IN IF ~chain.enabled THEN Err("ChainNotSupported", <<destination_chain>>, s)
     ELSE IF provided < required_fee
       THEN Err("InsufficientFee", <<required_fee, provided>>, s)
     ELSE Ok([s EXCEPT
               !.message_nonce = id,
               !.messages[id] =
                  [sender |-> sender, destination_chain |-> destination_chain,
                   target |-> target, data |-> data, timestamp |-> ts,
                   fee_paid |-> provided, status |-> STATUS_PENDING,
                   relayer |-> ZERO],
               !.protocol_fee_balance = Add(@, provided)], 0, id)

\* The relayer's share of the fee and the challenger's share of the stake.
relayer_reward(fee_paid) == Mul(fee_paid, RELAYER_REWARD_BPS) \div BPS_DENOMINATOR
challenger_share(stake) == Mul(stake, CHALLENGER_REWARD_BPS) \div BPS_DENOMINATOR

\* The guard of confirm_delivery on the status of the message.
confirm_status_unchecked(current_status) == TRUE
confirm_status_not_relayed(current_status) == current_status # STATUS_RELAYED
confirm_status_ok(current_status) == current_status = STATUS_PENDING

confirm_delivery(s, bal, relayer, message_id, execution_proof, ts, accepts) ==
  LET m == s.messages[message_id]
      current_status == m.status
      fee_paid == m.fee_paid
      deadline == Add(ts, s.challenge_period)
      reward == relayer_reward(fee_paid)
      s1 == [s EXCEPT
               !.messages[message_id].status = STATUS_RELAYED,
               !.messages[message_id].relayer = relayer,
               !.challenges[message_id].exists = TRUE,
               !.challenges[message_id].deadline = deadline,
               !.challenges[message_id].resolved = FALSE,
               !.protocol_fee_balance = Sub(@, reward),
               !.relayers[relayer].total_relayed = Add(@, 1)]
  IN IF ~s.relayers[relayer].active THEN Err("RelayerNotActive", <<relayer>>, s)
     ELSE IF m.timestamp = 0 THEN Err("MessageNotFound", <<message_id>>, s)
     ELSE IF ~confirm_status_ok(current_status)
       THEN Err("WrongStatus", <<STATUS_PENDING, current_status>>, s)
     ELSE IF ~verify_execution_proof(execution_proof) THEN Err("InvalidProof", <<>>, s)
     ELSE IF ~transfer_eth(bal, reward, accepts) THEN Err("TransferFailed", <<>>, s1)
     ELSE Ok(s1, reward, 0)

\* The expiry test of challenge_message and the window test of finalize_message.
challenge_expired_at_deadline(ts, deadline) == ts >= deadline
challenge_expired(ts, deadline) == ts > deadline
window_open_after_deadline(ts, deadline) == ts <= deadline + 1
window_open(ts, deadline) == ts <= deadline

challenge_message(s, bal, challenger, message_id, proof_of_fraud, ts, accepts) ==
  LET ch == s.challenges[message_id]
      deadline == ch.deadline
      status == s.messages[message_id].status
      relayer == s.messages[message_id].relayer
      stake == s.relayers[relayer].stake
      prev_slashed == s.relayers[relayer].slashed
      challenger_reward == challenger_share(stake)
      s1 == [s EXCEPT
               !.relayers[relayer].stake = 0,
               !.relayers[relayer].active = FALSE,
               !.relayers[relayer].slashed = Add(prev_slashed, stake),
               !.protocol_fee_balance = Sub(Add(@, stake), challenger_reward),
               !.messages[message_id].status = STATUS_FAILED,
               !.challenges[message_id].resolved = TRUE,
               !.challenges[message_id].challenger = challenger]
  IN IF ~ch.exists THEN Err("MessageNotFound", <<message_id>>, s)
     ELSE IF ch.resolved THEN Err("ChallengeExpired", <<deadline>>, s)
     ELSE IF challenge_expired(ts, deadline) THEN Err("ChallengeExpired", <<deadline>>, s)
     ELSE IF status # STATUS_RELAYED
       THEN Err("WrongStatus", <<STATUS_RELAYED, status>>, s)
     ELSE IF ~verify_fraud_proof(proof_of_fraud) THEN Err("InvalidProof", <<>>, s)
     ELSE IF ~transfer_eth(bal, challenger_reward, accepts)
       THEN Err("TransferFailed", <<>>, s1)
     ELSE Ok(s1, challenger_reward, 0)

\* finalize_message as it would be if it did not mark the challenge resolved.
finalize_message_unresolved(s, message_id, ts) ==
  LET ch == s.challenges[message_id]
      deadline == ch.deadline
      status == s.messages[message_id].status
      relayer == s.messages[message_id].relayer
  IN IF ~ch.exists THEN Err("MessageNotFound", <<message_id>>, s)
     ELSE IF ch.resolved
       THEN Err("WrongStatus", <<STATUS_RELAYED, STATUS_CONFIRMED>>, s)
     ELSE IF window_open(ts, deadline) THEN Err("ChallengeWindowOpen", <<deadline>>, s)
     ELSE IF status # STATUS_RELAYED
       THEN Err("WrongStatus", <<STATUS_RELAYED, status>>, s)
     ELSE Ok([s EXCEPT
               !.messages[message_id].status = STATUS_CONFIRMED,
               !.relayers[relayer].successful = Add(@, 1)], 0, 0)

finalize_message(s, message_id, ts) ==
  LET ch == s.challenges[message_id]
      deadline == ch.deadline
      status == s.messages[message_id].status
      relayer == s.messages[message_id].relayer
  IN IF ~ch.exists THEN Err("MessageNotFound", <<message_id>>, s)
     ELSE IF ch.resolved
       THEN Err("WrongStatus", <<STATUS_RELAYED, STATUS_CONFIRMED>>, s)
     ELSE IF window_open(ts, deadline) THEN Err("ChallengeWindowOpen", <<deadline>>, s)
     ELSE IF status # STATUS_RELAYED
       THEN Err("WrongStatus", <<STATUS_RELAYED, status>>, s)
     ELSE Ok([s EXCEPT
               !.messages[message_id].status = STATUS_CONFIRMED,
               !.relayers[relayer].successful = Add(@, 1),
               !.challenges[message_id].resolved = TRUE], 0, 0)

register_relayer(s, relayer, provided) ==
  LET required == s.min_stake
      prev_stake == s.relayers[relayer].stake
  IN IF provided < required THEN Err("InsufficientStake", <<required, provided>>, s)
     ELSE Ok([s EXCEPT !.relayers[relayer].active = TRUE,
                       !.relayers[relayer].stake = Add(prev_stake, provided)], 0, 0)

exit_relayer_keeps_stake(s, bal, relayer, accepts) ==
  LET stake == s.relayers[relayer].stake
      s1 == [s EXCEPT !.relayers[relayer].active = FALSE]
  IN IF ~s.relayers[relayer].active THEN Err("RelayerNotActive", <<relayer>>, s)
     ELSE IF ~transfer_eth(bal, stake, accepts) THEN Err("TransferFailed", <<>>, s1)
     ELSE Ok(s1, stake, 0)

\* exit_relayer as it would be if it refused a relayer that still has a
\* message with an unresolved challenge.
exit_relayer_when_settled(s, bal, relayer, accepts) ==
  LET stake == s.relayers[relayer].stake
      s1 == [s EXCEPT !.relayers[relayer].stake = 0,
                      !.relayers[relayer].active = FALSE]
  IN IF ~s.relayers[relayer].active THEN Err("RelayerNotActive", <<relayer>>, s)
     ELSE IF \E id \in IdKeys : /\ s.messages[id].relayer = relayer
                                /\ s.challenges[id].exists
                                /\ ~s.challenges[id].resolved
       THEN Err("RelayerNotActive", <<relayer>>, s)
     ELSE IF ~transfer_eth(bal, stake, accepts) THEN Err("TransferFailed", <<>>, s1)
     ELSE Ok(s1, stake, 0)

exit_relayer(s, bal, relayer, accepts) ==
  LET stake == s.relayers[relayer].stake
      s1 == [s EXCEPT !.relayers[relayer].stake = 0,
                      !.relayers[relayer].active = FALSE]
  IN IF ~s.relayers[relayer].active THEN Err("RelayerNotActive", <<relayer>>, s)
     ELSE IF ~transfer_eth(bal, stake, accepts) THEN Err("TransferFailed", <<>>, s1)
     ELSE Ok(s1, stake, 0)

add_chain(s, caller, chain_id, receiver_address, base_fee) ==
  LET is_new == ~s.supported_chains[chain_id].enabled
  IN IF ~only_owner(s, caller) THEN Err("Unauthorized", <<caller>>, s)
     ELSE IF receiver_address = ZERO THEN Err("ZeroAddress", <<>>, s)
     ELSE Ok([s EXCEPT
               !.supported_chains[chain_id] =
                  [enabled |-> TRUE, receiver_address |-> receiver_address,
                   base_fee |-> base_fee],
               !.chain_count = IF is_new THEN Add(@, 1) ELSE @], 0, 0)

disable_chain_clears_config(s, caller, chain_id) ==
  IF ~only_owner(s, caller) THEN Err("Unauthorized", <<caller>>, s)
  ELSE Ok([s EXCEPT !.supported_chains[chain_id] = EmptyChainConfig], 0, 0)

disable_chain(s, caller, chain_id) ==
  IF ~only_owner(s, caller) THEN Err("Unauthorized", <<caller>>, s)
  ELSE Ok([s EXCEPT !.supported_chains[chain_id].enabled = FALSE], 0, 0)

withdraw_fees(s, bal, caller, amount, accepts) ==
  LET balance_ == s.protocol_fee_balance
      s1 == [s EXCEPT !.protocol_fee_balance = Sub(balance_, amount)]
  IN IF ~only_owner(s, caller) THEN Err("Unauthorized", <<caller>>, s)
     ELSE IF amount > balance_ THEN Err("InsufficientFee", <<amount, balance_>>, s)
     ELSE IF ~transfer_eth(bal, amount, accepts) THEN Err("TransferFailed", <<>>, s1)
     ELSE Ok(s1, amount, 0)

transfer_ownership(s, caller, new_owner) ==
  IF ~only_owner(s, caller) THEN Err("Unauthorized", <<caller>>, s)
  ELSE IF new_owner = ZERO THEN Err("ZeroAddress", <<>>, s)
  ELSE Ok([s EXCEPT !.owner = new_owner], 0, 0)
\* ---- the view functions --------------------------------------------------
\* U8 -> u8 and U32 -> u32: the value is kept when it fits the target width
\* (the 32-bit width, like the 256-bit one, is narrowed to the model's).
u8_val(v) == v % 2^8
u32_val(v) == v % U256

get_message_status(s, message_id) ==
  IF s.messages[message_id].timestamp = 0 THEN Err("MessageNotFound", <<message_id>>, s)
  ELSE Ok(s, 0, u8_val(s.messages[message_id].status))

get_message_sender(s, message_id) ==
  IF s.messages[message_id].timestamp = 0 THEN Err("MessageNotFound", <<message_id>>, s)
  ELSE Ok(s, 0, s.messages[message_id].sender)

get_message_relayer(s, message_id) ==
  IF s.messages[message_id].timestamp = 0 THEN Err("MessageNotFound", <<message_id>>, s)
  ELSE Ok(s, 0, s.messages[message_id].relayer)

get_message_fee(s, message_id) ==
  IF s.messages[message_id].timestamp = 0 THEN Err("MessageNotFound", <<message_id>>, s)
  ELSE Ok(s, 0, s.messages[message_id].fee_paid)

get_message_destination(s, message_id) ==
  IF s.messages[message_id].timestamp = 0 THEN Err("MessageNotFound", <<message_id>>, s)
  ELSE Ok(s, 0, u32_val(s.messages[message_id].destination_chain))

\* Returns the stored deadline without a Result: it cannot fail, and reads 0
\* for a message that has no challenge.
challenge_deadline(s, message_id) == Ok(s, 0, s.challenges[message_id].deadline)

\* ---- the entrypoint ------------------------------------------------------
\* A call that returns an error reverts: the storage written by the body, the
\* value attached to the call and the value it transferred are all undone.
CommitAlways(r) == r.hub
Commit(r) == IF r.err = "Ok" THEN r.hub ELSE hub

Call(op, id, value, r) ==
  /\ hub' = Commit(r)
  /\ balance' = IF r.err = "Ok" THEN (balance + value) - r.pay ELSE balance
  /\ result' = [op |-> op, id |-> id, err |-> r.err, ret |-> r.ret]
  /\ sends' = IF op = "send_message" /\ r.err = "Ok" THEN sends + 1 ELSE sends
  /\ resolutions' =
       IF op \in {"challenge_message", "finalize_message"} /\ r.err = "Ok"
       THEN [resolutions EXCEPT ![id] = @ + 1] ELSE resolutions
  /\ UNCHANGED now

\* A call as a step of the model.  With reverted = TRUE every call is a step;
\* with reverted = FALSE only the calls that return Ok are.
Step(reverted, op, id, value, r) == (reverted \/ r.err = "Ok") /\ Call(op, id, value, r)

NoCall == [op |-> "none", id |-> 0, err |-> "Ok", ret |-> 0]

Init ==
  /\ hub = EmptyHub
  /\ balance = 0
  /\ now = 1
  /\ result = NoCall
  /\ sends = 0
  /\ resolutions = [i \in IdKeys |-> 0]

Initialize(reverted) ==
  \E caller \in Address, min_stake \in MinStakes, challenge_period \in Periods :
    Step(reverted, "initialize", 0, 0, initialize(hub, caller, min_stake, challenge_period))

SendMessage(reverted, limit) ==
  \E sender \in Senders, provided \in FeeValues, chain \in ChainIds,
     target \in Targets, data \in Datas :
    /\ hub.message_nonce < limit
    /\ Step(reverted, "send_message", 0, provided,
            send_message(hub, sender, provided, chain, target, data, now))

ConfirmDelivery(reverted) ==
  \E relayer \in Address, id \in IdKeys, proof \in Proofs, accepts \in BOOLEAN :
    Step(reverted, "confirm_delivery", id, 0,
         confirm_delivery(hub, balance, relayer, id, proof, now, accepts))

ChallengeMessage(reverted) ==
  \E challenger \in Address, id \in IdKeys, proof \in Proofs, accepts \in BOOLEAN :
    Step(reverted, "challenge_message", id, 0,
         challenge_message(hub, balance, challenger, id, proof, now, accepts))

FinalizeMessage(reverted) ==
  \E id \in IdKeys :
    Step(reverted, "finalize_message", id, 0, finalize_message(hub, id, now))

RegisterRelayer(reverted) ==
  \E relayer \in Stakers, provided \in StakeValues :
    /\ hub.relayers[relayer].stake + provided <= MaxStake
    /\ Step(reverted, "register_relayer", 0, provided, register_relayer(hub, relayer, provided))

ExitRelayer(reverted) ==
  \E relayer \in Address, accepts \in BOOLEAN :
    Step(reverted, "exit_relayer", 0, 0, exit_relayer(hub, balance, relayer, accepts))

AddChain(reverted) ==
  \E caller \in Address, chain \in ChainIds, receiver \in Receivers, base_fee \in BaseFees :
    /\ hub.chain_count < MaxChainCount
    /\ Step(reverted, "add_chain", 0, 0, add_chain(hub, caller, chain, receiver, base_fee))

DisableChain(reverted) ==
  \E caller \in Address, chain \in ChainIds :
    Step(reverted, "disable_chain", 0, 0, disable_chain(hub, caller, chain))

WithdrawFees(reverted) ==
  \E caller \in Address, amount \in WithdrawAmounts, accepts \in BOOLEAN :
    Step(reverted, "withdraw_fees", 0, 0, withdraw_fees(hub, balance, caller, amount, accepts))

TransferOwnership(reverted) ==
  \E caller \in Address, new_owner \in AddrKeys :
    Step(reverted, "transfer_ownership", 0, 0, transfer_ownership(hub, caller, new_owner))

\* The block timestamp advances between calls; successive calls may see the same one.
Tick ==
  /\ now < MaxTime
  /\ now' = now + 1
  /\ UNCHANGED <<hub, balance, result, sends, resolutions>>

\* Every call is a step, the reverted ones too.
Next ==
  \/ Initialize(TRUE)
  \/ SendMessage(TRUE, MaxTraced)
  \/ ConfirmDelivery(TRUE)
  \/ ChallengeMessage(TRUE)
  \/ FinalizeMessage(TRUE)
  \/ RegisterRelayer(TRUE)
  \/ ExitRelayer(TRUE)
  \/ AddChain(TRUE)
  \/ DisableChain(TRUE)
  \/ WithdrawFees(TRUE)
  \/ TransferOwnership(TRUE)
  \/ Tick

Spec == Init /\ [][Next]_vars

\* Only the calls that return Ok are steps: a reverted call leaves every
\* variable but result as it was, so the storage reaches the same states.
NextCommitted ==
  \/ Initialize(FALSE)
  \/ SendMessage(FALSE, MaxMessages)
  \/ ConfirmDelivery(FALSE)
  \/ ChallengeMessage(FALSE)
  \/ FinalizeMessage(FALSE)
  \/ RegisterRelayer(FALSE)
  \/ ExitRelayer(FALSE)
  \/ AddChain(FALSE)
  \/ DisableChain(FALSE)
  \/ WithdrawFees(FALSE)
  \/ TransferOwnership(FALSE)
  \/ Tick

SpecCommitted == Init /\ [][NextCommitted]_vars

\* The committed calls with a clock that keeps advancing and a keeper that
\* keeps calling finalize_message (anyone may call it) while a call of it
\* can succeed.
SpecLive ==
  /\ Init
  /\ [][NextCommitted]_vars
  /\ WF_vars(Tick)
  /\ WF_vars(FinalizeMessage(FALSE))

\* ---- properties ----------------------------------------------------------
RECURSIVE StakeSum(_, _)
StakeSum(s, n) == IF n < 0 THEN 0 ELSE s.relayers[n].stake + StakeSum(s, n - 1)
TotalStake == StakeSum(hub, NumAddrs)

\* A step that is a call of the function op (Tick is the only step that moves now).
CallStep(op) == now' = now /\ result'.op = op
ValidProofs == {p \in Proofs : verify_fraud_proof(p)}
Relayed(id) ==
  /\ hub.messages[id].status = STATUS_RELAYED
  /\ hub.challenges[id].exists
  /\ ~hub.challenges[id].resolved

C2_StatusTransitions ==
  [][\A id \in IdKeys :
       LET old == hub.messages[id].status
           new == hub'.messages[id].status
       IN old # new =>
            /\ result'.id = id
            /\ \/ old = STATUS_PENDING /\ new = STATUS_RELAYED
                    /\ CallStep("confirm_delivery")
               \/ old = STATUS_RELAYED /\ new = STATUS_CONFIRMED
                    /\ CallStep("finalize_message")
               \/ old = STATUS_RELAYED /\ new = STATUS_FAILED
                    /\ CallStep("challenge_message")]_vars

\* C2 witness: one message has reached Failed and another Confirmed.
C2_Witness ==
  \E i, j \in IdKeys :
    /\ hub.messages[i].status = STATUS_FAILED
    /\ hub.messages[j].status = STATUS_CONFIRMED

\* C3: the value held by the contract (all fees and stakes received minus all
\* rewards, returned stakes and withdrawals paid out) equals the protocol fee
\* balance plus the sum of the relayers' stakes.
C3_FundConservation == balance = hub.protocol_fee_balance + TotalStake

\* C4: every debit of the protocol fee balance is at most the balance at that
\* moment: the relayer reward in confirm_delivery and the amount in withdraw_fees.
C4_NoTreasuryUnderflow ==
  [][/\ (CallStep("confirm_delivery") /\ result'.err = "Ok")
          => relayer_reward(hub.messages[result'.id].fee_paid) <= hub.protocol_fee_balance
     /\ (CallStep("withdraw_fees") /\ result'.err = "Ok")
          => hub'.protocol_fee_balance <= hub.protocol_fee_balance]_vars

\* The error challenge_message returns for a valid fraud proof once the
\* deadline test has passed: Ok when the challenger's reward can be
\* transferred, TransferFailed when it cannot.
ChallengeOutcome(id, accepts) ==
  IF transfer_eth(balance, challenger_share(hub.relayers[hub.messages[id].relayer].stake),
                  accepts)
  THEN "Ok" ELSE "TransferFailed"

\* C5 as stated: for a Relayed message with an unresolved challenge and deadline
\* D, challenge_message with a valid fraud proof succeeds at every now <= D
\* and fails ChallengeExpired at every now > D; finalize_message fails
\* ChallengeWindowOpen at every now <= D and succeeds at every now > D.
C5_Original ==
  \A id \in IdKeys : Relayed(id) =>
    LET D == hub.challenges[id].deadline
    IN /\ \A c \in Address, p \in ValidProofs, accepts \in BOOLEAN :
            challenge_message(hub, balance, c, id, p, now, accepts).err =
              (IF now <= D THEN "Ok" ELSE "ChallengeExpired")
       /\ finalize_message(hub, id, now).err =
            (IF now <= D THEN "ChallengeWindowOpen" ELSE "Ok")

\* C5 amended: at every now <= D challenge_message with a valid fraud proof
\* passes the deadline test (it succeeds when the transfer of the challenger's
\* reward succeeds and fails TransferFailed otherwise, never ChallengeExpired)
\* and finalize_message fails ChallengeWindowOpen; at every now > D
\* challenge_message fails ChallengeExpired and finalize_message succeeds.
\* So at no timestamp can both succeed.
C5_DeadlineBoundary ==
  \A id \in IdKeys : Relayed(id) =>
    LET D == hub.challenges[id].deadline
    IN /\ \A c \in Address, p \in ValidProofs, accepts \in BOOLEAN :
            challenge_message(hub, balance, c, id, p, now, accepts).err =
              (IF now <= D THEN ChallengeOutcome(id, accepts) ELSE "ChallengeExpired")
       /\ finalize_message(hub, id, now).err =
            (IF now <= D THEN "ChallengeWindowOpen" ELSE "Ok")

\* C5 witness: challenge_message has just succeeded at now = deadline while
\* another message is Relayed and past its deadline.
C5_Witness ==
  /\ result.op = "challenge_message"
  /\ result.err = "Ok"
  /\ hub.challenges[result.id].deadline = now
  /\ \E j \in IdKeys : Relayed(j) /\ now > hub.challenges[j].deadline

\* C6: the k-th send_message that succeeds returns id k; a send_message that
\* fails leaves the nonce as it was; message_count is the number of successful
\* sends and a message record exists exactly for the ids 1..message_count.
C6_NonceMonotonic ==
  /\ hub.message_nonce = sends
  /\ (result.op = "send_message" /\ result.err = "Ok") => result.ret = sends
  /\ \A id \in IdKeys :
       (hub.messages[id].timestamp # 0) <=> (1 <= id /\ id <= hub.message_nonce)
  /\ hub.message_nonce < MaxMessages =>
       \A sender \in Senders, provided \in FeeValues, chain \in ChainIds,
          target \in Targets, data \in Datas :
         LET r == send_message(hub, sender, provided, chain, target, data, now)
         IN IF r.err = "Ok"
            THEN r.ret = sends + 1 /\ r.hub.message_nonce = sends + 1
            ELSE /\ r.err \in {"ChainNotSupported", "InsufficientFee"}
                 /\ r.hub.message_nonce = hub.message_nonce

\* C6 witness: the second successful send_message has just returned.
C6_Witness ==
  /\ result.op = "send_message"
  /\ result.err = "Ok"
  /\ sends >= 2

\* C7: at most one challenge_message or finalize_message call on a message
\* ever succeeds, and once its challenge is resolved every such call fails
\* and changes nothing.
C7_ResolvedOnce ==
  \A id \in IdKeys :
    /\ resolutions[id] <= 1
    /\ hub.challenges[id].resolved <=> resolutions[id] = 1
    /\ hub.challenges[id].resolved =>
         /\ \A c \in Address, p \in Proofs, accepts \in BOOLEAN :
              LET r == challenge_message(hub, balance, c, id, p, now, accepts)
              IN r.err # "Ok" /\ Commit(r) = hub
         /\ LET r == finalize_message(hub, id, now)
            IN r.err # "Ok" /\ Commit(r) = hub

\* C7 witness: a message was resolved by a challenge, its relayer has staked
\* again, and the deadline has not passed.
C7_Witness ==
  \E id \in IdKeys :
    /\ hub.challenges[id].resolved
    /\ hub.messages[id].status = STATUS_FAILED
    /\ now <= hub.challenges[id].deadline
    /\ hub.relayers[hub.messages[id].relayer].stake > 0

\* C8: an inactive relayer has no stake, and no stake is negative.
C8_InactiveHasNoStake ==
  \A a \in AddrKeys :
    /\ hub.relayers[a].stake >= 0
    /\ ~hub.relayers[a].active => hub.relayers[a].stake = 0

\* C8 witness: a relayer that was slashed, staked again and has just exited.
C8_Witness ==
  /\ result.op = "exit_relayer"
  /\ result.err = "Ok"
  /\ \E a \in Address : ~hub.relayers[a].active /\ hub.relayers[a].slashed > 0

\* C9: confirm_delivery creates the challenge of a message with deadline
\* now + challenge_period and resolved = false; afterwards the deadline never
\* changes and resolved only goes from false to true.
C9_DeadlineFixed ==
  [][\A id \in IdKeys :
       LET old == hub.challenges[id]
           new == hub'.challenges[id]
       IN /\ old.exists =>
               /\ new.exists
               /\ new.deadline = old.deadline
               /\ old.resolved => new.resolved
          /\ (~old.exists /\ new.exists) =>
               /\ CallStep("confirm_delivery") /\ result'.id = id
               /\ new.deadline = Add(now, hub.challenge_period)
               /\ ~new.resolved]_vars

\* C9 witness: a challenge is resolved and the clock is past its deadline.
C9_Witness ==
  \E id \in IdKeys :
    /\ hub.challenges[id].exists
    /\ hub.challenges[id].resolved
    /\ now > hub.challenges[id].deadline

\* C10: once the owner is set, every initialize call fails AlreadyInitialized
\* and changes nothing, initialize succeeds only while the owner is zero, and
\* the owner never becomes the zero address again.
C10_InitializeOnce ==
  [][/\ hub.owner # ZERO => hub'.owner # ZERO
     /\ (CallStep("initialize") /\ hub.owner # ZERO) =>
          /\ result'.err = "AlreadyInitialized"
          /\ hub' = hub
     /\ (CallStep("initialize") /\ hub.owner = ZERO) =>
          /\ result'.err = "Ok"
          /\ hub'.owner # ZERO]_vars

\* C10 witness: initialize has just failed AlreadyInitialized.
C10_Witness ==
  /\ result.op = "initialize"
  /\ result.err = "AlreadyInitialized"
  /\ hub.owner # ZERO

\* Once the clock is past the deadline of a Relayed message with an unresolved
\* challenge, finalize_message succeeds, whoever calls it and whatever has
\* become of its relayer and its destination chain, and leaves the message
\* Confirmed with its challenge resolved.
FinalizeSucceedsAfterDeadline ==
  \A id \in IdKeys :
    (Relayed(id) /\ now > hub.challenges[id].deadline) =>
      LET r == finalize_message(hub, id, now)
      IN /\ r.err = "Ok"
         /\ r.hub.messages[id].status = STATUS_CONFIRMED
         /\ r.hub.challenges[id].resolved

\* C11: a Relayed message that is not challenged finalizes: once the clock is
\* past its deadline finalize_message succeeds and makes it Confirmed,
\* whether or not its relayer has exited or been slashed and its chain been
\* disabled; and with a clock that advances and a keeper that calls
\* finalize_message, every message that is Relayed with a deadline the
\* clock can pass is eventually Confirmed or Failed.
C11_RelayedFinalizes ==
  /\ []FinalizeSucceedsAfterDeadline
  /\ \A id \in IdKeys :
       (Relayed(id) /\ hub.challenges[id].deadline < MaxTime)
         ~> (hub.messages[id].status \in {STATUS_CONFIRMED, STATUS_FAILED})

\* C11 witness: finalize_message has just made a message Confirmed whose
\* relayer was slashed for another message and whose chain is disabled.
C11_Witness ==
  /\ result.op = "finalize_message"
  /\ result.err = "Ok"
  /\ hub.messages[result.id].status = STATUS_CONFIRMED
  /\ ~hub.relayers[hub.messages[result.id].relayer].active
  /\ ~hub.supported_chains[hub.messages[result.id].destination_chain].enabled
  /\ \E j \in IdKeys :
       /\ hub.messages[j].status = STATUS_FAILED
       /\ hub.messages[j].relayer = hub.messages[result.id].relayer

\* What a successful confirm_delivery writes besides the treasury: the message
\* is Relayed with the caller as its relayer, its challenge is open until
\* now + challenge_period, the caller is paid the reward, its total_relayed
\* grows by one and every stake is as before.
ConfirmEffects(id) ==
  LET r == hub'.messages[id].relayer
      reward == (hub.messages[id].fee_paid * RELAYER_REWARD_BPS) \div BPS_DENOMINATOR
  IN /\ hub.messages[id].status = STATUS_PENDING
     /\ hub.relayers[r].active
     /\ hub'.messages[id].status = STATUS_RELAYED
     /\ hub'.challenges[id].exists
     /\ hub'.challenges[id].deadline = now + hub.challenge_period
     /\ ~hub'.challenges[id].resolved
     /\ balance' = balance - reward
     /\ hub'.relayers[r].total_relayed = hub.relayers[r].total_relayed + 1
     /\ \A a \in AddrKeys : hub'.relayers[a].stake = hub.relayers[a].stake

\* C12: a successful confirm_delivery(id) by an active relayer r at time t on
\* a Pending message with fee f makes the message Relayed with relayer r,
\* opens its challenge with deadline t + challenge_period and resolved =
\* false, pays r floor(f * 8000 / 10000), lowers the protocol fee balance by
\* exactly that amount, adds one to r's total_relayed and leaves r's stake.
C12_ConfirmDelivery ==
  [][(CallStep("confirm_delivery") /\ result'.err = "Ok") =>
       /\ ConfirmEffects(result'.id)
       /\ hub'.protocol_fee_balance =
            hub.protocol_fee_balance
              - (hub.messages[result'.id].fee_paid * RELAYER_REWARD_BPS) \div BPS_DENOMINATOR]_vars

\* The effects of confirm_delivery other than the debit of the treasury.
ConfirmEffectsHold ==
  [][(CallStep("confirm_delivery") /\ result'.err = "Ok") =>
       ConfirmEffects(result'.id)]_vars

\* What a successful challenge_message(id) by c writes besides the treasury:
\* the assigned relayer loses its whole stake s and is inactive, c is paid
\* floor(s * 1000 / 10000), the message is Failed and its challenge is
\* resolved with challenger c.
ChallengeEffects(r, id, c) ==
  LET rel == hub.messages[id].relayer
      s == hub.relayers[rel].stake
  IN /\ r.hub.relayers[rel].stake = 0
     /\ ~r.hub.relayers[rel].active
     /\ r.pay = (s * CHALLENGER_REWARD_BPS) \div BPS_DENOMINATOR
     /\ r.hub.messages[id].status = STATUS_FAILED
     /\ r.hub.challenges[id].resolved
     /\ r.hub.challenges[id].challenger = c

\* The treasury after a challenge that seized the stake s: s minus the
\* challenger's reward more than before.
ChallengeTreasury(r, id) ==
  LET s == hub.relayers[hub.messages[id].relayer].stake
  IN r.hub.protocol_fee_balance =
       hub.protocol_fee_balance + (s - (s * CHALLENGER_REWARD_BPS) \div BPS_DENOMINATOR)

\* C13: a successful challenge_message(id) by c takes the whole stake s of
\* the message's relayer (stake 0, inactive), pays c floor(s * 1000 / 10000),
\* raises the protocol fee balance by exactly s minus that reward, makes the
\* message Failed and resolves the challenge with challenger c.
C13_ChallengeMessage ==
  \A id \in IdKeys, c \in Address, p \in Proofs, accepts \in BOOLEAN :
    LET r == challenge_message(hub, balance, c, id, p, now, accepts)
    IN r.err = "Ok" => (ChallengeEffects(r, id, c) /\ ChallengeTreasury(r, id))

\* The effects of challenge_message other than the credit of the treasury.
ChallengeEffectsHold ==
  \A id \in IdKeys, c \in Address, p \in Proofs, accepts \in BOOLEAN :
    LET r == challenge_message(hub, balance, c, id, p, now, accepts)
    IN r.err = "Ok" => ChallengeEffects(r, id, c)

\* The results of every owner-only call by caller in storage s.
OwnerOnlyCalls(s, bal, caller) ==
  {add_chain(s, caller, chain, receiver, base_fee) :
     chain \in ChainIds, receiver \in Receivers, base_fee \in BaseFees}
  \cup {disable_chain(s, caller, chain) : chain \in ChainIds}
  \cup {withdraw_fees(s, bal, caller, amount, accepts) :
          amount \in WithdrawAmounts, accepts \in BOOLEAN}
  \cup {transfer_ownership(s, caller, new_owner) : new_owner \in AddrKeys}

Rejected(s, bal, caller) ==
  \A r \in OwnerOnlyCalls(s, bal, caller) : r.err = "Unauthorized"
Accepted(s, bal, caller) ==
  \A r \in OwnerOnlyCalls(s, bal, caller) : r.err # "Unauthorized"

\* An owner-only call by anyone but the owner fails Unauthorized and changes
\* nothing, a call by the owner passes the check; transfer_ownership by the
\* owner fails ZeroAddress for the zero address and keeps the owner, and
\* makes any other address the owner.
OwnerOnly ==
  /\ \A caller \in Address :
       IF caller = hub.owner
       THEN Accepted(hub, balance, caller)
       ELSE /\ Rejected(hub, balance, caller)
            /\ \A r \in OwnerOnlyCalls(hub, balance, caller) : Commit(r) = hub
  /\ \A new_owner \in AddrKeys :
       LET r == transfer_ownership(hub, hub.owner, new_owner)
       IN hub.owner # ZERO =>
            IF new_owner = ZERO
            THEN r.err = "ZeroAddress" /\ Commit(r).owner = hub.owner
            ELSE r.err = "Ok" /\ Commit(r).owner = new_owner

\* C14 as stated: add_chain, disable_chain, withdraw_fees and
\* transfer_ownership succeed only for the owner and fail Unauthorized
\* without a change for anyone else; after a successful
\* transfer_ownership(newOwner) the previous owner is rejected and newOwner
\* is accepted; transfer_ownership to the zero address fails ZeroAddress and
\* keeps the owner.
C14_Original ==
  /\ []OwnerOnly
  /\ [][(CallStep("transfer_ownership") /\ result'.err = "Ok") =>
          /\ Accepted(hub', balance', hub'.owner)
          /\ Rejected(hub', balance', hub.owner)]_vars

\* C14 amended: as stated, but the previous owner is rejected after a
\* successful transfer_ownership(newOwner) only when newOwner is another
\* address; a transfer to the owner itself succeeds and keeps it the owner.
C14_OwnerOnly ==
  /\ []OwnerOnly
  /\ [][(CallStep("transfer_ownership") /\ result'.err = "Ok") =>
          /\ Accepted(hub', balance', hub'.owner)
          /\ hub'.owner # hub.owner => Rejected(hub', balance', hub.owner)
          /\ hub'.owner = hub.owner => Accepted(hub', balance', hub.owner)]_vars

\* C14 witness: transfer_ownership has just succeeded, the owner can
\* withdraw fees and the other address is rejected by every owner-only call.
C14_Witness ==
  /\ result.op = "transfer_ownership"
  /\ result.err = "Ok"
  /\ \E amount \in WithdrawAmounts :
       withdraw_fees(hub, balance, hub.owner, amount, TRUE).err = "Ok"
  /\ \E a \in Address : a # hub.owner /\ Rejected(hub, balance, a)

\* The results of every call of a public function other than initialize, by
\* any caller and with any input, in the current state.
CallsButInitialize ==
  {send_message(hub, sender, provided, chain, target, data, now) :
     sender \in Address, provided \in FeeValues, chain \in ChainIds,
     target \in Targets, data \in Datas}
  \cup {confirm_delivery(hub, balance, relayer, id, proof, now, accepts) :
          relayer \in Address, id \in IdKeys, proof \in Proofs, accepts \in BOOLEAN}
  \cup {challenge_message(hub, balance, challenger, id, proof, now, accepts) :
          challenger \in Address, id \in IdKeys, proof \in Proofs, accepts \in BOOLEAN}
  \cup {finalize_message(hub, id, now) : id \in IdKeys}
  \cup {register_relayer(hub, relayer, provided) :
          relayer \in Address, provided \in StakeValues}
  \cup {exit_relayer(hub, balance, relayer, accepts) :
          relayer \in Address, accepts \in BOOLEAN}
  \cup UNION {OwnerOnlyCalls(hub, balance, caller) : caller \in Address}

\* C15: while the owner is the zero address (initialize has not succeeded),
\* every call of send_message, confirm_delivery, challenge_message,
\* finalize_message, register_relayer, exit_relayer, add_chain,
\* disable_chain, withdraw_fees and transfer_ownership by a nonzero caller
\* returns an error and changes no state.
C15_UninitializedRejects ==
  hub.owner = ZERO =>
    \A r \in CallsButInitialize : r.err # "Ok" /\ Commit(r) = hub

\* Before initialize every call but register_relayer and exit_relayer fails.
UninitializedRejectsButRelayers ==
  hub.owner = ZERO =>
    \A r \in CallsButInitialize \ 
         ({register_relayer(hub, relayer, provided) :
             relayer \in Address, provided \in StakeValues}
          \cup {exit_relayer(hub, balance, relayer, accepts) :
                  relayer \in Address, accepts \in BOOLEAN}) :
      r.err # "Ok" /\ Commit(r) = hub

\* The results of the five message queries that check the message exists.
MessageQueries(id) ==
  {get_message_status(hub, id), get_message_sender(hub, id),
   get_message_relayer(hub, id), get_message_fee(hub, id),
   get_message_destination(hub, id)}

\* The identifiers returned by the successful send_message calls so far.
Created(id) == 1 <= id /\ id <= sends

\* C16: the queries of a message's status, sender, relayer, fee, destination
\* and challenge deadline fail MessageNotFound for an identifier that no
\* successful send_message has returned, and succeed for every identifier
\* that one has.
C16_QueriesCheckExistence ==
  \A id \in IdKeys :
    \A r \in MessageQueries(id) \cup {challenge_deadline(hub, id)} :
      r.err = (IF Created(id) THEN "Ok" ELSE "MessageNotFound")

\* The five get_message_ queries do as C16 says, and return the stored field.
MessageQueriesCheckExistence ==
  \A id \in IdKeys :
    /\ \A r \in MessageQueries(id) :
         r.err = (IF Created(id) THEN "Ok" ELSE "MessageNotFound")
    /\ Created(id) =>
         /\ get_message_status(hub, id).ret = hub.messages[id].status
         /\ get_message_destination(hub, id).ret = hub.messages[id].destination_chain
         /\ challenge_deadline(hub, id).err = "Ok"

\* Storage s with chain c disabled and nothing else changed.
Disabled(s, c) == [s EXCEPT !.supported_chains[c].enabled = FALSE]

\* The call r made with chain c disabled does what the call q made with the
\* chain as it is does: same error, same payment, same writes.
SameOutcome(r, q, c) ==
  /\ r.err = q.err
  /\ r.args = q.args
  /\ r.pay = q.pay
  /\ r.hub = Disabled(q.hub, c)

\* C17: disable_chain(c) changes only the enabled flag of chain c; after it
\* send_message to c fails ChainNotSupported, and confirm_delivery,
\* challenge_message and finalize_message on any message succeed or fail
\* exactly as they do with the chain left as it was.
C17_DisableChain ==
  \A caller \in Address, c \in ChainIds :
    LET d == disable_chain(hub, caller, c)
    IN d.err = "Ok" =>
         /\ d.hub = Disabled(hub, c)
         /\ \A sender \in Address, provided \in FeeValues, target \in Targets,
               data \in Datas :
              send_message(d.hub, sender, provided, c, target, data, now).err
                = "ChainNotSupported"
         /\ \A id \in IdKeys :
              /\ SameOutcome(finalize_message(d.hub, id, now),
                             finalize_message(hub, id, now), c)
              /\ \A a \in Address, proof \in Proofs, accepts \in BOOLEAN :
                   /\ SameOutcome(
                        confirm_delivery(d.hub, balance, a, id, proof, now, accepts),
                        confirm_delivery(hub, balance, a, id, proof, now, accepts), c)
                   /\ SameOutcome(
                        challenge_message(d.hub, balance, a, id, proof, now, accepts),
                        challenge_message(hub, balance, a, id, proof, now, accepts), c)

\* C17 witness: the chain has a receiver and a base fee and is disabled, and
\* confirm_delivery has just succeeded on a message sent to it.
C17_Witness ==
  /\ result.op = "confirm_delivery"
  /\ result.err = "Ok"
  /\ LET c == hub.messages[result.id].destination_chain
     IN /\ ~hub.supported_chains[c].enabled
        /\ hub.supported_chains[c].receiver_address # ZERO
        /\ hub.supported_chains[c].base_fee > 0

\* exit_relayer by an active relayer pays the whole stake back and leaves the
\* relayer inactive without stake.
ExitReturnsStake(e, r) ==
  /\ e.pay = hub.relayers[r].stake
  /\ e.hub.relayers[r].stake = 0
  /\ ~e.hub.relayers[r].active

\* challenge_message on a message whose relayer has no stake left makes the
\* message Failed, seizes and pays nothing and leaves the treasury.
ChallengeSeizesNothing(r, id) ==
  /\ r.pay = 0
  /\ r.hub.protocol_fee_balance = hub.protocol_fee_balance
  /\ r.hub.messages[id].status = STATUS_FAILED
  /\ r.hub.relayers[hub.messages[id].relayer].stake = 0

\* A Relayed message within its challenge window whose relayer has exited.
RelayerExited(id) ==
  /\ Relayed(id)
  /\ now <= hub.challenges[id].deadline
  /\ ~hub.relayers[hub.messages[id].relayer].active
  /\ hub.relayers[hub.messages[id].relayer].stake = 0

\* C18 as stated: exit_relayer succeeds for every active relayer, also one
\* with unresolved challenges on messages it relayed, and returns the full
\* stake; a challenge_message with a valid fraud proof that follows within
\* the window succeeds, makes the message Failed, seizes 0, pays 0 and leaves
\* the treasury unchanged.
C18_Original ==
  /\ \A r \in Address, accepts \in BOOLEAN :
       hub.relayers[r].active =>
         LET e == exit_relayer(hub, balance, r, accepts)
         IN e.err = "Ok" /\ ExitReturnsStake(e, r)
  /\ \A id \in IdKeys, c \in Address, p \in ValidProofs, accepts \in BOOLEAN :
       RelayerExited(id) =>
         LET r == challenge_message(hub, balance, c, id, p, now, accepts)
         IN r.err = "Ok" /\ ChallengeSeizesNothing(r, id)

\* C18 amended: exit_relayer by an active relayer is never refused because of
\* unresolved challenges: it succeeds and returns the full stake whenever the
\* transfer of the stake succeeds and fails TransferFailed otherwise; a
\* challenge_message with a valid fraud proof that follows within the window
\* succeeds when the challenger accepts the transfer of 0 (TransferFailed
\* otherwise), makes the message Failed, seizes 0, pays 0 and leaves the
\* treasury unchanged.
C18_ExitThenChallenge ==
  /\ \A r \in Address, accepts \in BOOLEAN :
       hub.relayers[r].active =>
         LET e == exit_relayer(hub, balance, r, accepts)
         IN IF accepts /\ hub.relayers[r].stake <= balance
            THEN e.err = "Ok" /\ ExitReturnsStake(e, r)
            ELSE e.err = "TransferFailed"
  /\ \A id \in IdKeys, c \in Address, p \in ValidProofs, accepts \in BOOLEAN :
       RelayerExited(id) =>
         LET r == challenge_message(hub, balance, c, id, p, now, accepts)
         IN IF accepts
            THEN r.err = "Ok" /\ ChallengeSeizesNothing(r, id)
            ELSE r.err = "TransferFailed"

\* C18 witness: challenge_message has just succeeded on a message whose
\* relayer confirmed it and exited with its stake before the challenge: the
\* relayer was never slashed of anything and the message is Failed.
C18_Witness ==
  /\ result.op = "challenge_message"
  /\ result.err = "Ok"
  /\ hub.messages[result.id].status = STATUS_FAILED
  /\ LET rel == hub.relayers[hub.messages[result.id].relayer]
     IN rel.total_relayed >= 1 /\ rel.slashed = 0 /\ rel.stake = 0 /\ ~rel.active

\* The results of every confirm_delivery, challenge_message and
\* finalize_message call on message id in the current state.
LifecycleCalls(id) ==
  {confirm_delivery(hub, balance, a, id, proof, now, accepts) :
     a \in Address, proof \in Proofs, accepts \in BOOLEAN}
  \cup {challenge_message(hub, balance, a, id, proof, now, accepts) :
          a \in Address, proof \in Proofs, accepts \in BOOLEAN}
  \cup {finalize_message(hub, id, now)}

\* C19: when confirm_delivery, challenge_message or finalize_message fails
\* with WrongStatus(expected, actual), actual is the stored status of the
\* message and differs from expected; so finalize_message on a message that
\* a challenge made Failed reports actual = Failed.
C19_WrongStatusActual ==
  \A id \in IdKeys :
    \A r \in LifecycleCalls(id) :
      r.err = "WrongStatus" =>
        /\ r.args[2] = hub.messages[id].status
        /\ r.args[2] # r.args[1]

\* The WrongStatus errors of confirm_delivery report the stored status.
ConfirmWrongStatusActual ==
  \A id \in IdKeys, a \in Address, proof \in Proofs, accepts \in BOOLEAN :
    LET r == confirm_delivery(hub, balance, a, id, proof, now, accepts)
    IN r.err = "WrongStatus" =>
         r.args = <<STATUS_PENDING, hub.messages[id].status>>
           /\ hub.messages[id].status # STATUS_PENDING

\* No call but a successful challenge_message changes a slashed counter, and
\* that call changes only the one of the message's relayer.
OnlyChallengeChangesSlashed ==
  [][\A a \in AddrKeys :
       hub'.relayers[a].slashed # hub.relayers[a].slashed =>
         /\ CallStep("challenge_message")
         /\ result'.err = "Ok"
         /\ a = hub.messages[result'.id].relayer]_vars

\* C20: each successful challenge_message adds exactly 1 to the slashed
\* counter of the message's relayer, whatever the stake it seizes, and no
\* other call changes a slashed counter.
C20_SlashedCounts ==
  [][/\ (CallStep("challenge_message") /\ result'.err = "Ok") =>
          LET rel == hub.messages[result'.id].relayer
          IN hub'.relayers[rel].slashed = hub.relayers[rel].slashed + 1
     /\ \A a \in AddrKeys :
          hub'.relayers[a].slashed # hub.relayers[a].slashed =>
            /\ CallStep("challenge_message")
            /\ result'.err = "Ok"
            /\ a = hub.messages[result'.id].relayer]_vars

\* C21: every relayer that is active, and so may call confirm_delivery, has
\* a stake of at least min_stake, whatever the order of initialize,
\* register_relayer, exit_relayer and challenge_message.
C21_ActiveHasMinStake ==
  \A a \in AddrKeys :
    hub.relayers[a].active => hub.relayers[a].stake >= hub.min_stake

\* C22: for every message that exists, its challenge exists iff its status is
\* not Pending, the challenge is resolved iff the status is Confirmed or
\* Failed, its relayer is the zero address iff the status is Pending, and
\* its challenger is nonzero only if the status is Failed; so a message with
\* an unresolved challenge is Relayed, challenge_message never fails
\* WrongStatus and finalize_message fails WrongStatus only on a resolved
\* challenge, never at the status check that follows the deadline check.
C22_RecordsAgree ==
  \A id \in IdKeys :
    LET m == hub.messages[id]
        ch == hub.challenges[id]
    IN /\ m.timestamp # 0 =>
            /\ ch.exists <=> m.status # STATUS_PENDING
            /\ ch.resolved <=> m.status \in {STATUS_CONFIRMED, STATUS_FAILED}
            /\ m.relayer = ZERO <=> m.status = STATUS_PENDING
            /\ ch.challenger # ZERO => m.status = STATUS_FAILED
       /\ (ch.exists /\ ~ch.resolved) => m.status = STATUS_RELAYED
       /\ \A c \in Address, p \in Proofs, accepts \in BOOLEAN :
            challenge_message(hub, balance, c, id, p, now, accepts).err # "WrongStatus"
       /\ finalize_message(hub, id, now).err = "WrongStatus" => ch.resolved

\* C22 witness: one message is Failed with its challenger recorded while
\* another is Relayed with an open challenge.
C22_Witness ==
  \E i, j \in IdKeys :
    /\ hub.messages[i].status = STATUS_FAILED
    /\ hub.challenges[i].challenger # ZERO
    /\ hub.messages[j].status = STATUS_RELAYED
    /\ hub.challenges[j].exists /\ ~hub.challenges[j].resolved
    /\ hub.messages[j].relayer # ZERO
====
